---------------------------- MODULE Spec2Model ----------------------------
(***************************************************************************)
(* A model of joystick_ros2.py: the JoystickRos2 node, its two timers      *)
(* (detect_devices, run_one), the profile registry and the normaliser.     *)
(*                                                                         *)
(* Time is counted in milliseconds.  Floats are modelled as exact          *)
(* rationals <<numerator, denominator>> in lowest terms, denominator > 0.  *)
(* The position of run_one is pc: "idle" (not running), "drain" (inside    *)
(* the for loop of line 264), "check" (at the autorepeat test, line 280).  *)
(* Nothing else runs while pc # "idle": the executor is single threaded.   *)
(***************************************************************************)
EXTENDS Integers, Sequences, FiniteSets, TLC

\* ------------------------------------------------------------------ bounds
\* Dispatch ticks that a behaviour may run.
MaxTicks == 2
\* Events that the device may deliver in a behaviour.
MaxEvents == 3
\* ------------------------------------------------------- program constants
\* DEFAULT_DEADZONE = 0.05 = DeadzoneNum / DeadzoneDen
DeadzoneNum == 1
DeadzoneDen == 20
DEFAULT_DEADZONE == <<DeadzoneNum, DeadzoneDen>>
\* DEFAULT_COALESCE_INTERVAL = 0.001 s
DEFAULT_COALESCE_INTERVAL == 1
\* DEFAULT_AUTOREPEAT_RATE = 0.0 Hz
DEFAULT_AUTOREPEAT_RATE == 0
\* create_timer(0.01, self.run_one)
RunPeriod == 10
\* 1/autorepeat_rate is in seconds: the milliseconds of one second.
MsPerSecond == 1000
\* time.time() is the time since 1970: at start it exceeds every interval
\* the node compares against, so the clock starts one second in.
StartTime == MsPerSecond

\* ------------------------------------------------------- profile registry
XINPUT_CODE_MAP ==
    ("ABS_X" :> 0) @@ ("ABS_Y" :> 1) @@ ("ABS_Z" :> 2) @@ ("ABS_RX" :> 3) @@
    ("ABS_RY" :> 4) @@ ("ABS_RZ" :> 5) @@ ("ABS_HAT0X" :> 6) @@
    ("ABS_HAT0Y" :> 7) @@ ("BTN_SOUTH" :> 0) @@ ("BTN_EAST" :> 1) @@
    ("BTN_WEST" :> 2) @@ ("BTN_NORTH" :> 3) @@ ("BTN_TL" :> 4) @@
    ("BTN_TR" :> 5) @@ ("BTN_START" :> 6) @@ ("BTN_SELECT" :> 7) @@
    ("BTN_MODE" :> 8) @@ ("BTN_THUMBL" :> 9) @@ ("BTN_THUMBR" :> 10)

XINPUT_VALUE_MAP ==
    (0 :> <<-32768, 32767>>) @@ (1 :> <<32767, -32768>>) @@
    (2 :> <<0, 255>>) @@ (3 :> <<-32768, 32767>>) @@
    (4 :> <<32767, -32768>>) @@ (5 :> <<0, 255>>) @@
    (6 :> <<-1, 1>>) @@ (7 :> <<-1, 1>>)

PS4_CODE_MAP ==
    ("ABS_X" :> 0) @@ ("ABS_Y" :> 1) @@ ("ABS_RX" :> 2) @@ ("ABS_Z" :> 3) @@
    ("ABS_RZ" :> 4) @@ ("ABS_RY" :> 5) @@ ("ABS_HAT0X" :> 6) @@
    ("ABS_HAT0Y" :> 7) @@ ("BTN_EAST" :> 0) @@ ("BTN_C" :> 1) @@
    ("BTN_SOUTH" :> 2) @@ ("BTN_NORTH" :> 3) @@ ("BTN_WEST" :> 4) @@
    ("BTN_Z" :> 5) @@ ("BTN_TL2" :> 6) @@ ("BTN_TR2" :> 7) @@
    ("BTN_MODE" :> 8) @@ ("BTN_SELECT" :> 9) @@ ("BTN_START" :> 10)

PS4_VALUE_MAP ==
    (0 :> <<0, 255>>) @@ (1 :> <<0, 255>>) @@ (2 :> <<0, 255>>) @@
    (3 :> <<0, 255>>) @@ (4 :> <<0, 255>>) @@ (5 :> <<0, 255>>) @@
    (6 :> <<-1, 1>>) @@ (7 :> <<-1, 1>>)

F710_CODE_MAP ==
    ("ABS_X" :> 0) @@ ("ABS_Y" :> 1) @@ ("ABS_Z" :> 2) @@ ("ABS_RX" :> 3) @@
    ("ABS_RY" :> 4) @@ ("ABS_RZ" :> 5) @@ ("ABS_HAT0X" :> 6) @@
    ("ABS_HAT0Y" :> 7) @@ ("BTN_SOUTH" :> 0) @@ ("BTN_EAST" :> 1) @@
    ("BTN_NORTH" :> 2) @@ ("BTN_WEST" :> 3) @@ ("BTN_TL" :> 4) @@
    ("BTN_TR" :> 5) @@ ("BTN_SELECT" :> 6) @@ ("BTN_START" :> 7) @@
    ("BTN_MODE" :> 8) @@ ("BTN_THUMBL" :> 9) @@ ("BTN_THUMBR" :> 10)

F710_VALUE_MAP ==
    (0 :> <<-32768, 32767>>) @@ (1 :> <<-32768, 32767>>) @@
    (2 :> <<0, 255>>) @@ (3 :> <<-32768, 32767>>) @@
    (4 :> <<-32768, 32767>>) @@ (5 :> <<0, 255>>) @@
    (6 :> <<-1, 1>>) @@ (7 :> <<-1, 1>>)

XONE_CODE_MAP ==
    ("ABS_X" :> 0) @@ ("ABS_Y" :> 1) @@ ("ABS_Z" :> 2) @@ ("ABS_RX" :> 3) @@
    ("ABS_RY" :> 4) @@ ("ABS_RZ" :> 5) @@ ("ABS_HAT0X" :> 6) @@
    ("ABS_HAT0Y" :> 7) @@ ("BTN_SOUTH" :> 0) @@ ("BTN_EAST" :> 1) @@
    ("BTN_NORTH" :> 2) @@ ("BTN_WEST" :> 3) @@ ("BTN_TL" :> 4) @@
    ("BTN_TR" :> 5) @@ ("BTN_SELECT" :> 6) @@ ("BTN_START" :> 7) @@
    ("BTN_MODE" :> 8) @@ ("BTN_THUMBL" :> 9) @@ ("BTN_THUMBR" :> 10)

\* XONE_VALUE_MAP with the two ends of the range of ABS_RY equal.
XONE_VALUE_MAP_Degenerate ==
    (0 :> <<-32768, 32767>>) @@ (1 :> <<-32768, 32767>>) @@
    (2 :> <<0, 1023>>) @@ (3 :> <<-32768, 32767>>) @@
    (4 :> <<-32768, -32768>>) @@ (5 :> <<0, 1023>>) @@
    (6 :> <<-1, 1>>) @@ (7 :> <<-1, 1>>)

XONE_VALUE_MAP ==
    (0 :> <<-32768, 32767>>) @@ (1 :> <<-32768, 32767>>) @@
    (2 :> <<0, 1023>>) @@ (3 :> <<-32768, 32767>>) @@
    (4 :> <<-32768, -32767>>) @@ (5 :> <<0, 1023>>) @@
    (6 :> <<-1, 1>>) @@ (7 :> <<-1, 1>>)

XONE_S_CODE_MAP == XONE_CODE_MAP

XONE_S_VALUE_MAP ==
    (0 :> <<-32768, 32767>>) @@ (1 :> <<-32768, 32767>>) @@
    (2 :> <<-1023, 1023>>) @@ (3 :> <<-32768, 32767>>) @@
    (4 :> <<-32768, 32767>>) @@ (5 :> <<-1023, 1023>>) @@
    (6 :> <<-1, 1>>) @@ (7 :> <<-1, 1>>)

\* A profile is <<code map, value map>>: [1] and [2] here, [0] and [1] in Python.
JOYSTICK_CODE_VALUE_MAP ==
    ("Microsoft X-Box 360 pad" :> <<XINPUT_CODE_MAP, XINPUT_VALUE_MAP>>) @@
    ("Sony Computer Entertainment Wireless Controller"
        :> <<PS4_CODE_MAP, PS4_VALUE_MAP>>) @@
    ("Logitech Gamepad F710" :> <<F710_CODE_MAP, F710_VALUE_MAP>>) @@
    ("Microsoft X-Box One pad" :> <<XONE_CODE_MAP, XONE_VALUE_MAP>>) @@
    ("Microsoft X-Box One S pad" :> <<XONE_S_CODE_MAP, XONE_S_VALUE_MAP>>)

\* The codes of the registry by the kind of event that carries them: the
\* ABS_ codes of Absolute events, the BTN_ codes of Key events.
AxisCodes ==
    {"ABS_X", "ABS_Y", "ABS_Z", "ABS_RX", "ABS_RY", "ABS_RZ", "ABS_HAT0X",
     "ABS_HAT0Y"}

ButtonCodes ==
    {"BTN_SOUTH", "BTN_EAST", "BTN_WEST", "BTN_NORTH", "BTN_C", "BTN_Z",
     "BTN_TL", "BTN_TR", "BTN_TL2", "BTN_TR2", "BTN_START", "BTN_SELECT",
     "BTN_MODE", "BTN_THUMBL", "BTN_THUMBR"}

\* ------------------------------------------------------------ environment
\* The gamepad models the device library may enumerate: one with a built-in
\* profile, and one model the registry does not know.
DeviceNames == {"Microsoft X-Box One pad", "Generic USB Joystick"}

\* devices.gamepads after an enumeration: no gamepad, or one.
Enumerations == {<<>>} \cup {<<d>> : d \in DeviceNames}

\* The raw events the device library delivers.  The library derives the code
\* from the event type: Key events carry BTN_ codes, Absolute events ABS_
\* codes, Sync events SYN_ codes.  SYN_REPORT is in no code map.
Events ==
    [ev_type : {"Key"}, code : {"BTN_MODE"}, state : {0, 1}]
    \cup [ev_type : {"Absolute"}, code : {"ABS_X"}, state : {0, 32767}]
    \cup [ev_type : {"Absolute"}, code : {"ABS_RY"}, state : {32767}]
    \cup [ev_type : {"Sync"}, code : {"SYN_REPORT"}, state : {0}]

\* The configurations the node is started with.
AutorepeatRates == {DEFAULT_AUTOREPEAT_RATE, 100, 200}

\* The milliseconds that pass before the loop delivers its next event: the
\* clock is read at the granularity of the default coalesce_interval.
Delays == {0, DEFAULT_COALESCE_INTERVAL}
CoalesceIntervals == {DEFAULT_COALESCE_INTERVAL}

\* last_event = None
NoEvent == [ev_type |-> "None", code |-> "None", state |-> 0]

\* ---------------------------------------------------------------- numbers
Abs(x) == IF x < 0 THEN -x ELSE x

RECURSIVE GCD(_, _)
GCD(a, b) == IF b = 0 THEN a ELSE GCD(b, a % b)

\* The rational n/d (d # 0) in lowest terms with a positive denominator.
Rat(n, d) ==
    LET g == GCD(Abs(n), Abs(d))
        s == IF d < 0 THEN -1 ELSE 1
    IN  <<(s * n) \div g, (s * d) \div g>>

Zero == <<0, 1>>
One == <<1, 1>>
MinusOne == <<-1, 1>>

\* x <= y for rationals with positive denominators.
Leq(x, y) == x[1] * y[2] <= y[1] * x[2]

\* ------------------------------------------------------------------ state
VARIABLES
    gamepads,           \* devices.gamepads: the enumerated gamepads' models
    joy,                \* self.joy: [stamp, axes, buttons]
    last_event,         \* self.last_event
    last_publish_time,  \* self.last_publish_time
    autorepeat_rate,    \* the autorepeat_rate parameter, in Hz
    coalesce_interval,  \* the coalesce_interval parameter, in ms
    now,                \* time.time(), in ms
    run_timer,          \* when run_timer is next due
    pc,                 \* the position of run_one
    uncaught,           \* the exception that ended the process, or "none"
    sent,               \* the message publisher_.publish was last given
    tick_pubs,          \* the publish_joy calls of this dispatch tick
    drained,            \* the events the for loop has delivered in this tick
    delivered,          \* the events the device has delivered since the start
    read_failed,        \* whether the loop of this tick ended by OSError
    last_run,           \* history: how the last finished run_one ended
    auto_pubs,          \* history: autorepeat publishes since the last event
    cur,                \* history: the event delivered last, and what it caused
    prev,               \* history: the event delivered before cur
    deadzone,           \* the deadzone parameter, a rational
    call,               \* the arguments of a call of normalize_key_value
    ret                 \* <<>>, or <<the value that call returned>>

vars == <<gamepads, joy, last_event, last_publish_time, autorepeat_rate,
          coalesce_interval, now, run_timer, pc, uncaught, sent, tick_pubs,
          drained, delivered, read_failed, last_run, auto_pubs, cur, prev,
          deadzone, call, ret>>

\* History of one delivered event: its kind and code, whether the code was in
\* the code map, the publishes it caused, when it was handled, the time since
\* the last publish when it was handled, and the time since the event before.
NoHandled ==
    [ev_type |-> "None", code |-> "None", recognized |-> FALSE, pubs |-> 0]

NoneHandled == NoHandled @@ [at |-> 0, since |-> 0, gap |-> 0]

\* No call of normalize_key_value is under test.
NoCall == [key_value_min |-> 0, key_value_max |-> 1, key_value |-> 0]

\* Lines 202-206: the Joy message of __init__.
InitialJoy ==
    [stamp |-> 0, axes |-> [i \in 0..7 |-> Zero], buttons |-> [i \in 0..10 |-> 0]]

\* __init__: the node as constructed with gamepads g enumerated and the
\* parameters autorepeat_rate r, coalesce_interval c and deadzone d.
Started(g, r, c, d) ==
    /\ gamepads = g
    /\ joy = InitialJoy
    /\ last_event = NoEvent
    /\ last_publish_time = 0
    /\ autorepeat_rate = r
    /\ coalesce_interval = c
    /\ deadzone = d
    /\ now = StartTime
    /\ run_timer = StartTime + RunPeriod
    /\ pc = "idle"
    /\ uncaught = "none"
    /\ sent = InitialJoy
    /\ tick_pubs = 0
    /\ drained = 0
    /\ delivered = 0
    /\ read_failed = FALSE
    /\ last_run = "none"
    /\ auto_pubs = 0
    /\ cur = NoneHandled
    /\ prev = NoHandled

Init ==
    \E g \in Enumerations, r \in AutorepeatRates, c \in CoalesceIntervals :
        /\ Started(g, r, c, DEFAULT_DEADZONE)
        /\ call = NoCall
        /\ ret = <<>>

\* ------------------------------------------------------------- operations
\* ExceedsDeadzone with >= for >.
ExceedsDeadzone_AtBoundary(x) == Abs(x[1]) * deadzone[2] >= deadzone[1] * x[2]

\* Line 240: abs(normalized) > self.deadzone
ExceedsDeadzone(x) == Abs(x[1]) * deadzone[2] > deadzone[1] * x[2]

\* normalize_key_value with the sign of the slope lost: min gives -1.
normalize_key_value_Uninverted(key_value_min, key_value_max, key_value) ==
    LET normalized == Rat(2 * (key_value - key_value_min)
                            - (key_value_max - key_value_min),
                          key_value_max - key_value_min)
    IN  IF ExceedsDeadzone(normalized) THEN normalized ELSE Zero

\* normalize_key_value, for key_value_max # key_value_min:
\*   ((v - min) / (max - min) * (-2)) + 1
\*       = ((max - min) - 2 (v - min)) / (max - min)
normalize_key_value(key_value_min, key_value_max, key_value) ==
    LET normalized == Rat((key_value_max - key_value_min)
                            - 2 * (key_value - key_value_min),
                          key_value_max - key_value_min)
    IN  IF ExceedsDeadzone(normalized) THEN normalized ELSE Zero

\* publish_joy at time t, lines 232-235: the message as stamped and published.
Stamped(j, t) == [j EXCEPT !.stamp = t]

\* Line 265: event.code in JOYSTICK_CODE_VALUE_MAP[event.device.name][0]
InCodeMap(name, code) == code \in DOMAIN JOYSTICK_CODE_VALUE_MAP[name][1]

\* PublishDecision with the Key branch coalesced like the Absolute branch.
PublishDecision_KeysCoalesced(ev, t) ==
    \/ last_event = NoEvent
    \/ last_event.code # ev.code
    \/ t - last_publish_time > coalesce_interval

\* PublishDecision with >= for > in the interval test.
PublishDecision_AtInterval(ev, t) ==
    IF ev.ev_type = "Key"
    THEN TRUE
    ELSE \/ last_event = NoEvent
         \/ last_event.code # ev.code
         \/ t - last_publish_time >= coalesce_interval

\* PublishDecision without the comparison of the codes.
PublishDecision_CodeIgnored(ev, t) ==
    IF ev.ev_type = "Key"
    THEN TRUE
    ELSE \/ last_event = NoEvent
         \/ t - last_publish_time > coalesce_interval

\* Lines 269 and 274-275: whether handling a recognized event at time t
\* calls publish_joy.
PublishDecision(ev, t) ==
    IF ev.ev_type = "Key"
    THEN TRUE
    ELSE \/ last_event = NoEvent
         \/ last_event.code # ev.code
         \/ t - last_publish_time > coalesce_interval

\* AutorepeatDue with >= for > in the interval test.
AutorepeatDue_AtInterval(t) ==
    /\ autorepeat_rate > 0
    /\ (t - last_publish_time) * autorepeat_rate >= MsPerSecond

\* AutorepeatDue with the rate taken for the period: elapsed > rate.
AutorepeatDue_RateAsPeriod(t) ==
    /\ autorepeat_rate > 0
    /\ t - last_publish_time > autorepeat_rate * MsPerSecond

\* AutorepeatDue without the test of the rate, against the timer's period.
AutorepeatDue_RateIgnored(t) == t - last_publish_time > RunPeriod

\* Line 280: autorepeat_rate > 0.0 and time.time() - last_publish_time > 1/rate
AutorepeatDue(t) ==
    /\ autorepeat_rate > 0
    /\ (t - last_publish_time) * autorepeat_rate > MsPerSecond

\* Lines 265-271: whether ev reaches the Key or the Absolute branch.
Acts(name, ev) ==
    InCodeMap(name, ev.code) /\ ev.ev_type \in {"Key", "Absolute"}

\* Tracked with the assignment outside the test of the code map.
Tracked_Always(name, ev) == ev

\* Lines 270 and 276: self.last_event after ev was handled.
Tracked(name, ev) == IF Acts(name, ev) THEN ev ELSE last_event

\* The exception that handling ev of device `name` raises, or "none".
Raises(name, ev) ==
    IF name \notin DOMAIN JOYSTICK_CODE_VALUE_MAP THEN "KeyError"
    ELSE IF ~InCodeMap(name, ev.code) THEN "none"
    ELSE LET key_code == JOYSTICK_CODE_VALUE_MAP[name][1][ev.code]
             value_map == JOYSTICK_CODE_VALUE_MAP[name][2]
         IN  IF ev.ev_type = "Key"
             THEN IF key_code \in 0..10 THEN "none" ELSE "IndexError"
             ELSE IF ev.ev_type = "Absolute"
             THEN IF key_code \notin DOMAIN value_map THEN "KeyError"
                  ELSE IF value_map[key_code][1] = value_map[key_code][2]
                       THEN "ZeroDivisionError"
                  ELSE IF key_code \in 0..7 THEN "none" ELSE "IndexError"
             ELSE "none"

\* The state buffer after the write of line 268 or 273.
Written(name, ev) ==
    LET key_code == JOYSTICK_CODE_VALUE_MAP[name][1][ev.code]
        value_range == JOYSTICK_CODE_VALUE_MAP[name][2][key_code]
    IN  IF ev.ev_type = "Key"
        THEN [joy EXCEPT !.buttons[key_code] = ev.state]
        ELSE [joy EXCEPT !.axes[key_code] =
                  normalize_key_value(value_range[1], value_range[2], ev.state)]

\* detect_devices: re-enumerates the gamepads; it only logs what it finds.
detect_devices ==
    /\ pc = "idle"
    /\ uncaught = "none"
    /\ \E found \in Enumerations : gamepads' = found
    /\ UNCHANGED <<joy, last_event, last_publish_time, autorepeat_rate,
                   coalesce_interval, deadzone, now, run_timer, pc, uncaught,
                   sent, tick_pubs, drained, delivered, read_failed, last_run,
                   auto_pubs, cur, prev, call, ret>>

\* Time passes until run_timer is due.
Tick ==
    /\ pc = "idle"
    /\ uncaught = "none"
    /\ now < run_timer
    /\ run_timer <= StartTime + MaxTicks * RunPeriod
    /\ now' = run_timer
    /\ UNCHANGED <<gamepads, joy, last_event, last_publish_time,
                   autorepeat_rate, coalesce_interval, deadzone, run_timer,
                   pc, uncaught, sent, tick_pubs, drained, delivered,
                   read_failed, last_run, auto_pubs, cur, prev, call, ret>>

\* run_one_no_gamepad without the except clause: IndexError leaves run_one.
run_one_no_gamepad_Uncaught ==
    /\ pc = "idle"
    /\ uncaught = "none"
    /\ now >= run_timer
    /\ gamepads = <<>>
    /\ run_timer' = run_timer + RunPeriod
    /\ tick_pubs' = 0
    /\ drained' = 0
    /\ read_failed' = FALSE
    /\ uncaught' = "IndexError"
    /\ UNCHANGED <<gamepads, joy, last_event, last_publish_time,
                   autorepeat_rate, coalesce_interval, deadzone, now, pc,
                   sent, delivered, last_run, auto_pubs, cur, prev, call, ret>>

\* run_one_no_gamepad without the return: the tick goes on to line 280.
run_one_no_gamepad_FallsThrough ==
    /\ pc = "idle"
    /\ uncaught = "none"
    /\ now >= run_timer
    /\ gamepads = <<>>
    /\ run_timer' = run_timer + RunPeriod
    /\ tick_pubs' = 0
    /\ drained' = 0
    /\ read_failed' = FALSE
    /\ pc' = "check"
    /\ UNCHANGED <<gamepads, joy, last_event, last_publish_time,
                   autorepeat_rate, coalesce_interval, deadzone, now,
                   uncaught, sent, delivered, last_run, auto_pubs, cur, prev,
                   call, ret>>

\* run_one, lines 258-261: devices.gamepads[0] raises IndexError: return.
run_one_no_gamepad ==
    /\ pc = "idle"
    /\ uncaught = "none"
    /\ now >= run_timer
    /\ gamepads = <<>>
    /\ run_timer' = run_timer + RunPeriod
    /\ tick_pubs' = 0
    /\ drained' = 0
    /\ read_failed' = FALSE
    /\ last_run' = "returned"
    /\ UNCHANGED <<gamepads, joy, last_event, last_publish_time,
                   autorepeat_rate, coalesce_interval, deadzone, now, pc,
                   uncaught, sent, delivered, auto_pubs, cur, prev, call, ret>>

\* run_one, lines 258-264: a gamepad is enumerated: enter the for loop.
run_one_enter ==
    /\ pc = "idle"
    /\ uncaught = "none"
    /\ now >= run_timer
    /\ gamepads # <<>>
    /\ run_timer' = run_timer + RunPeriod
    /\ tick_pubs' = 0
    /\ drained' = 0
    /\ read_failed' = FALSE
    /\ pc' = "drain"
    /\ UNCHANGED <<gamepads, joy, last_event, last_publish_time,
                   autorepeat_rate, coalesce_interval, deadzone, now,
                   uncaught, sent, delivered, last_run, auto_pubs, cur, prev,
                   call, ret>>

\* handle_event with publish_joy called before the write of line 268 or 273.
handle_event_PublishFirst(ev, dt) ==
    LET t == now + dt
        name == gamepads[1]
        exc == Raises(name, ev)
        rec == exc = "none" /\ InCodeMap(name, ev.code)
        acts == exc = "none" /\ Acts(name, ev)
        pub == acts /\ PublishDecision(ev, t)
        written == IF acts THEN Written(name, ev) ELSE joy
    IN  /\ pc = "drain"
        /\ uncaught = "none"
        /\ delivered < MaxEvents
        /\ t < run_timer
        /\ now' = t
        /\ drained' = drained + 1
        /\ delivered' = delivered + 1
        /\ uncaught' = exc
        /\ joy' = IF pub THEN Stamped(written, t) ELSE written
        /\ sent' = IF pub THEN Stamped(joy, t) ELSE sent
        /\ tick_pubs' = IF pub THEN tick_pubs + 1 ELSE tick_pubs
        /\ last_publish_time' = IF pub THEN t ELSE last_publish_time
        /\ last_event' = IF exc = "none" THEN Tracked(name, ev) ELSE last_event
        /\ auto_pubs' = 0
        /\ prev' = [ev_type |-> cur.ev_type, code |-> cur.code,
                    recognized |-> cur.recognized, pubs |-> cur.pubs]
        /\ cur' = [ev_type |-> ev.ev_type, code |-> ev.code,
                   recognized |-> rec, pubs |-> IF pub THEN 1 ELSE 0,
                   at |-> t, since |-> t - last_publish_time,
                   gap |-> t - cur.at]
        /\ UNCHANGED <<gamepads, autorepeat_rate, coalesce_interval, deadzone,
                       run_timer, pc, read_failed, last_run, call, ret>>

\* run_one, lines 264-276: the loop delivers ev, dt ms after the step before.
handle_event(ev, dt) ==
    LET t == now + dt
        name == gamepads[1]
        exc == Raises(name, ev)
        rec == exc = "none" /\ InCodeMap(name, ev.code)
        acts == exc = "none" /\ Acts(name, ev)
        pub == acts /\ PublishDecision(ev, t)
        written == IF acts THEN Written(name, ev) ELSE joy
    IN  /\ pc = "drain"
        /\ uncaught = "none"
        /\ delivered < MaxEvents
        /\ t < run_timer
        /\ now' = t
        /\ drained' = drained + 1
        /\ delivered' = delivered + 1
        /\ uncaught' = exc
        /\ joy' = IF pub THEN Stamped(written, t) ELSE written
        /\ sent' = IF pub THEN Stamped(written, t) ELSE sent
        /\ tick_pubs' = IF pub THEN tick_pubs + 1 ELSE tick_pubs
        /\ last_publish_time' = IF pub THEN t ELSE last_publish_time
        /\ last_event' = IF exc = "none" THEN Tracked(name, ev) ELSE last_event
        /\ auto_pubs' = 0
        /\ prev' = [ev_type |-> cur.ev_type, code |-> cur.code,
                    recognized |-> cur.recognized, pubs |-> cur.pubs]
        /\ cur' = [ev_type |-> ev.ev_type, code |-> ev.code,
                   recognized |-> rec, pubs |-> IF pub THEN 1 ELSE 0,
                   at |-> t, since |-> t - last_publish_time,
                   gap |-> t - cur.at]
        /\ UNCHANGED <<gamepads, autorepeat_rate, coalesce_interval, deadzone,
                       run_timer, pc, read_failed, last_run, call, ret>>

\* drain_exhausted with an iterator that waits for the next event instead of
\* ending: the loop stays where it is.
drain_exhausted_Blocks ==
    /\ pc = "drain"
    /\ uncaught = "none"
    /\ UNCHANGED vars

\* run_one, line 264: the loop has no more events.
drain_exhausted ==
    /\ pc = "drain"
    /\ uncaught = "none"
    /\ pc' = "check"
    /\ UNCHANGED <<gamepads, joy, last_event, last_publish_time,
                   autorepeat_rate, coalesce_interval, deadzone, now,
                   run_timer, uncaught, sent, tick_pubs, drained, delivered,
                   read_failed, last_run, auto_pubs, cur, prev, call, ret>>

\* drain_oserror without the except clause: OSError leaves run_one.
drain_oserror_Uncaught ==
    /\ pc = "drain"
    /\ uncaught = "none"
    /\ uncaught' = "OSError"
    /\ read_failed' = TRUE
    /\ UNCHANGED <<gamepads, joy, last_event, last_publish_time,
                   autorepeat_rate, coalesce_interval, deadzone, now,
                   run_timer, pc, sent, tick_pubs, drained, delivered,
                   last_run, auto_pubs, cur, prev, call, ret>>

\* run_one, lines 277-278: the device raises OSError; except OSError: pass.
drain_oserror ==
    /\ pc = "drain"
    /\ uncaught = "none"
    /\ pc' = "check"
    /\ read_failed' = TRUE
    /\ UNCHANGED <<gamepads, joy, last_event, last_publish_time,
                   autorepeat_rate, coalesce_interval, deadzone, now,
                   run_timer, uncaught, sent, tick_pubs, drained, delivered,
                   last_run, auto_pubs, cur, prev, call, ret>>

\* run_one, lines 280-281: the autorepeat test, and the return.
autorepeat_check ==
    /\ pc = "check"
    /\ uncaught = "none"
    /\ pc' = "idle"
    /\ last_run' = IF read_failed THEN "oserror" ELSE "exhausted"
    /\ IF AutorepeatDue(now)
       THEN /\ joy' = Stamped(joy, now)
            /\ sent' = Stamped(joy, now)
            /\ tick_pubs' = tick_pubs + 1
            /\ auto_pubs' = auto_pubs + 1
            /\ last_publish_time' = now
       ELSE UNCHANGED <<joy, sent, tick_pubs, auto_pubs, last_publish_time>>
    /\ UNCHANGED <<gamepads, last_event, autorepeat_rate, coalesce_interval,
                   deadzone, now, run_timer, uncaught, drained, delivered,
                   read_failed, cur, prev, call, ret>>

Next ==
    \/ detect_devices
    \/ Tick
    \/ run_one_no_gamepad
    \/ run_one_enter
    \/ \E ev \in Events, dt \in Delays : handle_event(ev, dt)
    \/ drain_exhausted
    \/ drain_oserror
    \/ autorepeat_check

Spec == Init /\ [][Next]_vars

\* ------------------------------------------------- the values specification
\* The node with a gamepad of each of the five profiles and a wider choice of
\* raw values and deadzones; no time passes inside a tick.
ProfileNames == DOMAIN JOYSTICK_CODE_VALUE_MAP

\* deadzone: the default, and 0.2.
Deadzones == {DEFAULT_DEADZONE, <<1, 5>>}

\* Key events as the kernel reports them: 0 released, 1 pressed, 2 held
\* (autorepeat).  Absolute events at rest, at an extreme, and on a trigger
\* (range (0, 255) in three profiles) next to the two deadzones.
RawEvents ==
    [ev_type : {"Key"}, code : {"BTN_MODE"}, state : {0, 1, 2}]
    \cup [ev_type : {"Absolute"}, code : {"ABS_X"}, state : {0, 32767}]
    \cup [ev_type : {"Absolute"}, code : {"ABS_Z"}, state : {101, 102, 121}]

InitValues ==
    \E name \in ProfileNames, d \in Deadzones :
        /\ Started(<<name>>, DEFAULT_AUTOREPEAT_RATE,
                   DEFAULT_COALESCE_INTERVAL, d)
        /\ call = NoCall
        /\ ret = <<>>

NextValues ==
    \/ Tick
    \/ run_one_enter
    \/ \E ev \in RawEvents : handle_event(ev, 0)
    \/ drain_exhausted
    \/ autorepeat_check

ValueSpec == InitValues /\ [][NextValues]_vars

\* ----------------------------------------------- the fair specification
\* The node with autorepeat on and a gamepad that stays enumerated, under
\* the executor's scheduling: time passes, a timer that is due is called,
\* and a callback that was called runs on: the loop ends once the device has
\* no event ready, and the autorepeat test is made.  A read failure is the
\* device's choice: nothing forces it.
\* The events of the fair specification: the stick at rest and at an extreme,
\* a button pressed, and a report the code map does not know.
LiveEvents ==
    [ev_type : {"Key"}, code : {"BTN_MODE"}, state : {1}]
    \cup [ev_type : {"Absolute"}, code : {"ABS_X"}, state : {0, 32767}]
    \cup [ev_type : {"Sync"}, code : {"SYN_REPORT"}, state : {0}]

InitLive ==
    \E name \in DeviceNames, r \in AutorepeatRates \ {0} :
        /\ Started(<<name>>, r, DEFAULT_COALESCE_INTERVAL, DEFAULT_DEADZONE)
        /\ call = NoCall
        /\ ret = <<>>

NextLive ==
    \/ Tick
    \/ run_one_enter
    \/ \E ev \in LiveEvents, dt \in Delays : handle_event(ev, dt)
    \/ drain_exhausted
    \/ drain_oserror
    \/ autorepeat_check

Fairness ==
    /\ WF_vars(Tick)
    /\ WF_vars(run_one_enter)
    /\ WF_vars(drain_exhausted)
    /\ WF_vars(autorepeat_check)

LiveSpec == InitLive /\ [][NextLive]_vars /\ Fairness

\* --------------------------------------------- the normaliser specification
\* normalize_key_value alone, called once with the arguments drawn in Init.
\* Every (key_value_min, key_value_max) of the five value maps.
ValueRanges ==
    UNION {{JOYSTICK_CODE_VALUE_MAP[name][2][k] :
                k \in DOMAIN JOYSTICK_CODE_VALUE_MAP[name][2]} :
           name \in ProfileNames}

\* The raw values from one end of the range r to the other.
Between(r) == IF r[1] <= r[2] THEN r[1]..r[2] ELSE r[2]..r[1]

\* deadzone: the default, 0.2, and 1.0.
NormDeadzones == Deadzones \cup {One}

InitNorm ==
    \E r \in ValueRanges, d \in NormDeadzones :
        \E v \in Between(r) :
            /\ Started(<<>>, DEFAULT_AUTOREPEAT_RATE,
                       DEFAULT_COALESCE_INTERVAL, d)
            /\ call = [key_value_min |-> r[1], key_value_max |-> r[2],
                       key_value |-> v]
            /\ ret = <<>>

\* One call of normalize_key_value, lines 238-243.
call_normalize ==
    /\ ret = <<>>
    /\ ret' = <<normalize_key_value(call.key_value_min, call.key_value_max,
                                    call.key_value)>>
    /\ UNCHANGED <<gamepads, joy, last_event, last_publish_time,
                   autorepeat_rate, coalesce_interval, now, run_timer, pc,
                   uncaught, sent, tick_pubs, drained, delivered,
                   read_failed, last_run, auto_pubs, cur, prev, deadzone,
                   call>>

NextNorm == call_normalize

NormSpec == InitNorm /\ [][NextNorm]_vars


\* ------------------------------------------------------------------ claims
\* A step in which the for loop delivers an event.
Handles == drained' = drained + 1

\* A step in which publish_joy runs.
Publishes == tick_pubs' = tick_pubs + 1

\* The enumerated gamepad has a profile in the registry.
Supported == gamepads # <<>> /\ gamepads[1] \in DOMAIN JOYSTICK_CODE_VALUE_MAP

IsKey(h) == h.ev_type = "Key" /\ h.recognized
IsAxis(h) == h.ev_type = "Absolute" /\ h.recognized

\* C1: every Key event whose code is in the code map causes exactly one
\* publish while it is handled, of the buffer holding its write, whatever the
\* tracker holds and however little time has passed since the last publish;
\* so two consecutive Key events cause two publishes.
C1_KeyAlwaysPublishes ==
    [][(Handles /\ IsKey(cur'))
          => /\ Publishes
             /\ cur'.pubs = 1
             /\ sent' = joy'
             /\ last_publish_time' = now'
             /\ last_event'.code = cur'.code
             /\ (IsKey(prev') => prev'.pubs + cur'.pubs = 2)]_vars

\* Two Key events on the same code, the second handled at the very time of
\* the first's publish, and both published.
C1_Witness ==
    /\ IsKey(cur) /\ IsKey(prev)
    /\ cur.code = prev.code
    /\ cur.since = 0
    /\ prev.pubs = 1 /\ cur.pubs = 1
    /\ tick_pubs >= 2

\* C2: a recognized Absolute event causes a publish iff the tracker has no
\* event, or the tracker's event has another code, or the time since the last
\* publish is strictly greater than coalesce_interval; published or not, the
\* event becomes the tracker's event.
C2_AxisPublishRule ==
    [][(Handles /\ IsAxis(cur'))
          => /\ Publishes <=> \/ last_event = NoEvent
                              \/ last_event.code # cur'.code
                              \/ now' - last_publish_time > coalesce_interval
             /\ ~Publishes => /\ tick_pubs' = tick_pubs
                              /\ sent' = sent
                              /\ last_publish_time' = last_publish_time
             /\ last_event'.ev_type = "Absolute"
             /\ last_event'.code = cur'.code]_vars

\* An Absolute event on the tracker's code handled exactly coalesce_interval
\* after the last publish: suppressed, and recorded.
C2_Witness ==
    /\ IsAxis(cur)
    /\ cur.since = coalesce_interval
    /\ cur.pubs = 0
    /\ last_event.code = cur.code
    /\ last_publish_time = cur.at - coalesce_interval

\* C3 as stated: an axis event on code A immediately followed by an axis
\* event on another code B produces two publishes, whatever came before A.
C3_Original ==
    (IsAxis(prev) /\ IsAxis(cur) /\ prev.code # cur.code)
        => prev.pubs + cur.pubs = 2

\* C3 amended: the axis event on B that immediately follows an axis event on
\* another code A always causes a publish, whatever the timing and the
\* history; the pair produces two publishes exactly when A was published
\* itself, and one when A was coalesced with an earlier event on A.
C3_DifferentAxisPublishes ==
    [][(Handles /\ IsAxis(cur) /\ IsAxis(cur') /\ cur.code # cur'.code)
          => /\ Publishes
             /\ cur'.pubs = 1
             /\ sent' = joy'
             /\ prev'.pubs + cur'.pubs = 1 + cur.pubs]_vars

\* Axis events on A then on B with no time between them, both published.
C3_Witness ==
    /\ IsAxis(prev) /\ IsAxis(cur)
    /\ prev.code # cur.code
    /\ cur.gap = 0 /\ cur.since = 0
    /\ prev.pubs = 1 /\ cur.pubs = 1

\* C4 as stated: two consecutive axis events on one code produce exactly one
\* publish when they are within coalesce_interval of each other, and exactly
\* two when they are further apart.
C4_Original ==
    (IsAxis(prev) /\ IsAxis(cur) /\ prev.code = cur.code)
        => /\ cur.gap <= coalesce_interval => prev.pubs + cur.pubs = 1
           /\ cur.gap > coalesce_interval => prev.pubs + cur.pubs = 2

\* C4 amended: two consecutive axis events on one code, the first of which
\* was published, produce exactly one publish when the second is handled
\* within coalesce_interval of the last publish, and exactly two when it is
\* handled more than coalesce_interval after the last publish.
C4_SameAxisCoalesces ==
    (IsAxis(prev) /\ IsAxis(cur) /\ prev.code = cur.code /\ prev.pubs = 1)
        => /\ cur.since <= coalesce_interval => prev.pubs + cur.pubs = 1
           /\ cur.since > coalesce_interval => prev.pubs + cur.pubs = 2

\* Two axis events on one code, the first published, the second handled
\* exactly coalesce_interval later and suppressed.
C4_Witness ==
    /\ IsAxis(prev) /\ IsAxis(cur)
    /\ prev.code = cur.code
    /\ prev.pubs = 1 /\ cur.pubs = 0
    /\ cur.gap = coalesce_interval
    /\ cur.since = coalesce_interval

\* The start of the time without events: when the last event was delivered.
QuietFrom == cur.at

\* C5 as stated: with autorepeat_rate = R > 0 and no event for longer than
\* 1/R since the last one, the dispatch ticks have emitted exactly one
\* autorepeat publish for each interval of 1/R that has elapsed since it.
C5_Original ==
    [][(/\ pc = "check" /\ pc' = "idle"
        /\ autorepeat_rate > 0
        /\ delivered > 0
        /\ (now - QuietFrom) * autorepeat_rate > MsPerSecond)
          => auto_pubs' =
                ((now - QuietFrom) * autorepeat_rate) \div MsPerSecond]_vars

\* C5 amended: with autorepeat_rate = R > 0, a dispatch tick that reaches the
\* autorepeat test emits exactly one more publish when the time since the
\* last publish is strictly greater than 1/R, and none otherwise (so at most
\* one per tick of 0.01 s, and never one per elapsed 1/R when 1/R is not
\* longer than the tick); that publish carries the axes and buttons of the
\* state buffer unchanged and modifies only the stamp and the last-publish
\* time.
C5_AutorepeatPerTick ==
    [][(pc = "check" /\ pc' = "idle" /\ autorepeat_rate > 0)
          => IF (now - last_publish_time) * autorepeat_rate > MsPerSecond
             THEN /\ Publishes
                  /\ sent'.axes = joy.axes /\ sent'.buttons = joy.buttons
                  /\ joy'.axes = joy.axes /\ joy'.buttons = joy.buttons
                  /\ sent'.stamp = now /\ joy'.stamp = now
                  /\ last_publish_time' = now
                  /\ last_event' = last_event
             ELSE /\ tick_pubs' = tick_pubs
                  /\ UNCHANGED <<joy, sent, last_publish_time, last_event>>]_vars

\* A tick without events, more than 1/R after the publish of an earlier
\* event, whose autorepeat publish carries the buffer that event wrote.
C5_Witness ==
    /\ autorepeat_rate > 0
    /\ pc = "idle" /\ last_run = "exhausted"
    /\ delivered > 0 /\ drained = 0
    /\ (now - cur.at) * autorepeat_rate > MsPerSecond
    /\ tick_pubs = 1 /\ auto_pubs = 1
    /\ last_publish_time = now
    /\ sent = joy
    /\ joy.axes # InitialJoy.axes

\* C6: with autorepeat_rate = 0, every publish is made by the handling of a
\* recognized event: a tick that handles none publishes nothing.
C6_NoAutorepeatAtRateZero ==
    [][(/\ autorepeat_rate = 0
        /\ \/ Publishes
           \/ sent' # sent
           \/ last_publish_time' # last_publish_time)
          => Handles /\ cur'.recognized /\ cur'.pubs = 1]_vars

\* Rate 0: the second tick has run to its end with a gamepad present and
\* without events, and nothing was ever published.
C6_Witness ==
    /\ autorepeat_rate = 0
    /\ pc = "idle" /\ last_run = "exhausted"
    /\ drained = 0 /\ tick_pubs = 0
    /\ now >= StartTime + 2 * RunPeriod
    /\ last_publish_time = 0
    /\ sent = InitialJoy

\* C7: an event whose code is not in the active profile's code map changes
\* neither axes, buttons, stamp, the tracker's event nor the last-publish
\* time, and causes no publish.
C7_UnrecognizedIgnored ==
    [][(/\ Handles
        /\ Supported
        /\ ~InCodeMap(gamepads[1], cur'.code))
          => /\ joy' = joy
             /\ last_event' = last_event
             /\ last_publish_time' = last_publish_time
             /\ sent' = sent
             /\ tick_pubs' = tick_pubs
             /\ cur'.pubs = 0
             /\ uncaught' = "none"]_vars

\* An unrecognized event was handled after a recognized one had set the
\* buffer and the tracker.
C7_Witness ==
    /\ pc = "drain" /\ Supported
    /\ ~InCodeMap(gamepads[1], cur.code)
    /\ cur.ev_type = "Sync" /\ ~cur.recognized /\ cur.pubs = 0
    /\ last_event # NoEvent
    /\ joy # InitialJoy
    /\ uncaught = "none"

\* C8 as stated: while the enumerated gamepad's model is not in the registry
\* the dispatch tick handles none of its events and the process keeps
\* running.
C8_UnsupportedSuspendsDispatch ==
    (pc = "drain" /\ ~Supported) => (drained = 0 /\ uncaught = "none")

\* C9 as stated: no event ends the process: no exception leaves run_one.
C9_NoUncaughtFailure == uncaught = "none"

\* C10: when the device raises OSError during the loop the failure is
\* caught, no further event is handled in that tick, the buffer, the tracker
\* and the last-publish time keep the values the events handled before it
\* produced (the autorepeat test that ends the tick changes the stamp and the
\* last-publish time alone), and the process keeps running.
C10_ReadFailureAbsorbed ==
    [][/\ (~read_failed /\ read_failed')
          => /\ pc = "drain" /\ pc' = "check"
             /\ uncaught' = "none"
             /\ UNCHANGED <<joy, last_event, last_publish_time, sent,
                            tick_pubs, drained, delivered, cur, gamepads>>
       /\ (read_failed /\ read_failed')
          => /\ drained' = drained
             /\ joy'.axes = joy.axes /\ joy'.buttons = joy.buttons
             /\ last_event' = last_event
             /\ uncaught' = "none"
             /\ (last_publish_time' # last_publish_time
                   => pc = "check" /\ AutorepeatDue(now))]_vars

\* The tick before ended by OSError after it had handled an event, and this
\* tick drains again: it has handled a recognized event.
C10_Witness ==
    /\ last_run = "oserror"
    /\ pc = "drain" /\ ~read_failed
    /\ drained >= 1 /\ delivered >= 2
    /\ cur.recognized /\ prev.recognized
    /\ uncaught = "none"

\* A step in which a dispatch tick starts: run_one is called.
Dispatches == run_timer' # run_timer

\* C11: while no gamepad is enumerated, neither a detection tick (whatever it
\* finds) nor a dispatch tick changes the state buffer or the tracker, and
\* neither fails: both return.  Detection is not latched: once a later
\* detection has enumerated a gamepad, the next dispatch tick enters the
\* loop over its events.
C11_NoGamepadNonFatal ==
    [][/\ (pc = "idle" /\ (gamepads = <<>> \/ gamepads' = <<>>))
          => /\ joy' = joy
             /\ last_event' = last_event
             /\ uncaught' = "none"
             /\ pc' = "idle"
             /\ delivered' = delivered
       /\ (gamepads = <<>> /\ Dispatches) => last_run' = "returned"
       /\ (gamepads # <<>> /\ Dispatches) => pc' = "drain"]_vars

\* The dispatch tick before returned for want of a gamepad; a detection has
\* since enumerated one, and this tick has handled and published its event.
C11_Witness ==
    /\ last_run = "returned"
    /\ Supported
    /\ pc = "drain" /\ drained >= 1
    /\ cur.recognized /\ cur.pubs = 1
    /\ joy # InitialJoy
    /\ uncaught = "none"

\* -1 <= x <= 1
InUnit(x) == Leq(MinusOne, x) /\ Leq(x, One)

\* C12 as stated: each of the 8 axes of the state buffer and of the message
\* published last lies in [-1, 1], and is exactly 0 unless its magnitude
\* exceeds the deadzone.
C12_AxesInRange ==
    \A i \in 0..7 :
        /\ InUnit(joy.axes[i]) /\ InUnit(sent.axes[i])
        /\ joy.axes[i] = Zero \/ ExceedsDeadzone(joy.axes[i])

\* x < y for rationals with positive denominators.
Less(x, y) == x[1] * y[2] < y[1] * x[2]

\* The value a call of normalize_key_value has returned.
Returned == ret # <<>>

\* C14 as stated: for every range of a value map and every raw value between
\* its two ends, normalize_key_value returns a value in [-1, 1], exactly +1
\* for the value key_value_min and exactly -1 for the value key_value_max.
C14_Original ==
    Returned
        => /\ InUnit(ret[1])
           /\ call.key_value = call.key_value_min => ret[1] = One
           /\ call.key_value = call.key_value_max => ret[1] = MinusOne

\* C14 amended: the returned value is in [-1, 1] whatever the deadzone; it is
\* exactly +1 for key_value_min and exactly -1 for key_value_max when the
\* deadzone parameter is less than 1, and 0 for both when it is not.
C14_NormalizeRange ==
    Returned
        => /\ InUnit(ret[1])
           /\ call.key_value \in {call.key_value_min, call.key_value_max}
                 => IF Less(deadzone, One)
                    THEN ret[1] = IF call.key_value = call.key_value_min
                                  THEN One ELSE MinusOne
                    ELSE ret[1] = Zero

\* The default deadzone, a range given with its ends swapped (the inverted
\* Y axis of the X-Box 360 pad), the raw value at key_value_min: exactly +1.
C14_Witness ==
    /\ Returned
    /\ deadzone = DEFAULT_DEADZONE
    /\ call.key_value_min > call.key_value_max
    /\ call.key_value = call.key_value_min
    /\ ret[1] = One

\* C13 as stated: each of the 11 buttons of the state buffer and of the
\* message published last is 0 or 1, whatever raw state the Key events carry.
C13_ButtonsBinary ==
    \A i \in 0..10 : joy.buttons[i] \in {0, 1} /\ sent.buttons[i] \in {0, 1}

\* n = 1 - 2 * (v - rawMin) / (rawMax - rawMin), for the range r.
Linear(r, v) == Rat((r[2] - r[1]) - 2 * (v - r[1]), r[2] - r[1])

\* abs(x) for a rational.
Magnitude(x) == <<Abs(x[1]), x[2]>>

\* C15: handling an Absolute event of a code the profile maps writes to that
\* code's axis exactly 0 when abs(n) <= deadzone and n itself when
\* abs(n) > deadzone, n being the linear value of the raw state over the
\* axis's range, and writes nothing else in the buffer; with the range
\* (-32768, 32767) and deadzone 0.05, state 32767 writes -1 and state 0
\* writes 0.
C15_DeadzoneCutoff ==
    [][(Handles /\ IsAxis(cur'))
          => LET ev == last_event'
                 profile == JOYSTICK_CODE_VALUE_MAP[gamepads[1]]
                 k == profile[1][ev.code]
                 r == profile[2][k]
                 n == Linear(r, ev.state)
             IN  /\ joy'.axes[k] =
                        IF Leq(Magnitude(n), deadzone) THEN Zero ELSE n
                 /\ \A i \in (0..7) \ {k} : joy'.axes[i] = joy.axes[i]
                 /\ joy'.buttons = joy.buttons
                 /\ (r = <<-32768, 32767>> /\ deadzone = DEFAULT_DEADZONE)
                       => /\ ev.state = 32767 => joy'.axes[k] = MinusOne
                          /\ ev.state = 0 => joy'.axes[k] = Zero]_vars

\* Deadzone 0.2 and a trigger of range (0, 255): the raw state 102, whose
\* linear value is exactly 0.2, has just been written as 0 over the value
\* the raw state 101 had left there, while the stick keeps its -1.
C15_Witness ==
    /\ deadzone = <<1, 5>>
    /\ gamepads = <<"Logitech Gamepad F710">>
    /\ IsAxis(cur) /\ IsAxis(prev)
    /\ last_event.code = "ABS_Z" /\ last_event.state = 102
    /\ Linear(<<0, 255>>, 102) = deadzone
    /\ joy.axes[2] = Zero
    /\ sent.axes[2] = Linear(<<0, 255>>, 101)
    /\ joy.axes[0] = MinusOne

\* A profile <<code map, value map>> is well-formed.
WellFormed(profile) ==
    /\ DOMAIN profile[1] \subseteq AxisCodes \cup ButtonCodes
    /\ \A c \in DOMAIN profile[1] \cap AxisCodes :
          profile[1][c] \in 0..7 /\ profile[1][c] \in DOMAIN profile[2]
    /\ \A c \in DOMAIN profile[1] \cap ButtonCodes : profile[1][c] \in 0..10
    /\ \A k \in DOMAIN profile[2] : profile[2][k][1] # profile[2][k][2]

\* C16: each of the five profiles is well-formed: every axis code maps to an
\* index within 0..7 that has an entry in the value map, every button code to
\* an index within 0..10, and every range of the value map has two different
\* ends; so with a gamepad of any of the five no event is left by a missing
\* entry, a division by zero or an index out of range, whatever was handled
\* before it.
C16_ProfilesWellFormed ==
    /\ Cardinality(ProfileNames) = 5
    /\ \A name \in ProfileNames : WellFormed(JOYSTICK_CODE_VALUE_MAP[name])
    /\ Supported => uncaught = "none"

\* A gamepad with the PS4 profile: a Key event then an Absolute event on the
\* trigger, whose index 3 and range (0, 255) the profile supplied.
C16_Witness ==
    /\ gamepads = <<"Sony Computer Entertainment Wireless Controller">>
    /\ IsKey(prev) /\ IsAxis(cur)
    /\ last_event.code = "ABS_Z" /\ last_event.state = 101
    /\ joy.axes[3] = Linear(<<0, 255>>, 101)
    /\ joy.buttons[8] = 1
    /\ uncaught = "none"

\* The buffer j holds the write of event ev of a gamepad with the profile
\* `name` on top of the axes and buttons of the buffer before.
HoldsWrite(j, before, name, ev) ==
    LET profile == JOYSTICK_CODE_VALUE_MAP[name]
        k == profile[1][ev.code]
        n == Linear(profile[2][k], ev.state)
    IN  IF ev.ev_type = "Key"
        THEN /\ j.buttons[k] = ev.state
             /\ \A i \in (0..10) \ {k} : j.buttons[i] = before.buttons[i]
             /\ j.axes = before.axes
        ELSE /\ j.axes[k] = IF Leq(Magnitude(n), deadzone) THEN Zero ELSE n
             /\ \A i \in (0..7) \ {k} : j.axes[i] = before.axes[i]
             /\ j.buttons = before.buttons

\* C17: an event's publish is made in the step that handles the event, so
\* before any later event is observed, and stamped with that time, which
\* never decreases; the message is the whole state buffer as it is right
\* after the event's write: the write itself on top of every axis and button
\* the buffer held before, published or not; a step that does not publish
\* leaves the published message alone.
C17_PublishCarriesBuffer ==
    [][/\ Publishes
          => /\ sent' = joy'
             /\ sent'.stamp = now'
             /\ sent'.stamp >= sent.stamp
             /\ Handles => /\ cur'.pubs = 1
                            /\ sent'.stamp = cur'.at
                            /\ HoldsWrite(sent', joy, gamepads[1], last_event')
             /\ ~Handles => /\ sent'.axes = joy.axes
                             /\ sent'.buttons = joy.buttons
       /\ (Handles /\ cur'.pubs = 1) => Publishes
       /\ ~Publishes => sent' = sent]_vars

\* An axis event whose publish was suppressed, then a Key event: the message
\* the Key event published carries the button and the suppressed axis value.
C17_Witness ==
    /\ IsAxis(prev) /\ prev.pubs = 0
    /\ IsKey(cur) /\ cur.pubs = 1
    /\ sent = joy
    /\ sent.stamp = cur.at
    /\ sent.axes[0] = MinusOne
    /\ sent.buttons[8] = 1

\* C20: a dispatch tick that finds no gamepad enumerated returns before the
\* autorepeat test: it publishes nothing and leaves the state buffer, the
\* tracker and the last-publish time as they were, also when autorepeat_rate
\* is positive and more than 1/autorepeat_rate has passed since the last
\* publish.
C20_NoPublishWithoutGamepad ==
    [][gamepads = <<>>
          => /\ pc' = "idle"
             /\ ~Publishes
             /\ Dispatches => tick_pubs' = 0 /\ last_run' = "returned"
             /\ UNCHANGED <<joy, sent, last_event, last_publish_time>>]_vars

\* A gamepad's event was published; the gamepad then went away, and the tick
\* after returned with the autorepeat publish due and not made.
C20_Witness ==
    /\ gamepads = <<>>
    /\ pc = "idle" /\ last_run = "returned"
    /\ autorepeat_rate > 0
    /\ delivered > 0 /\ cur.pubs = 1
    /\ last_publish_time = cur.at
    /\ AutorepeatDue(now)
    /\ tick_pubs = 0
    /\ sent = joy /\ joy # InitialJoy

\* When the last dispatch tick, the one of the bound MaxTicks, is due.
LastTick == StartTime + MaxTicks * RunPeriod

TicksGoOn(t) == (LastTick - t) * autorepeat_rate > MsPerSecond

\* The axis value v is in the state buffer and not in the last message, and
\* the ticks go on for more than 1/autorepeat_rate after the last publish.
Pending(k, v) ==
    /\ joy.axes[k] = v
    /\ sent.axes[k] # v
    /\ TicksGoOn(last_publish_time)

\* The last message carries v on axis k; or a newer value has replaced v in
\* the buffer and the last message carries that one.
Carried(k, v) ==
    \/ sent.axes[k] = v
    \/ joy.axes[k] # v /\ sent.axes[k] = joy.axes[k]

\* C19: with autorepeat_rate > 0 and a gamepad that stays enumerated, an axis
\* value that a suppressed event has left in the state buffer is in the end
\* carried by a later publish, an event's or the autorepeat one, unless a
\* newer value of the same axis has replaced it first and is the one
\* published; stated for the stick axis the events move and the values they
\* give it, as long as the ticks go on for more than 1/autorepeat_rate.
C19_SuppressedValuePublished ==
    /\ Pending(0, Zero) ~> Carried(0, Zero)
    /\ Pending(0, MinusOne) ~> Carried(0, MinusOne)

\* A tick without events has made the autorepeat publish, and its message
\* carries the stick value -1 that a suppressed event had written after the
\* last event was published with the value 0.
C19_Witness ==
    /\ autorepeat_rate > 0
    /\ pc = "idle" /\ last_run = "exhausted"
    /\ IsAxis(prev) /\ prev.pubs = 1
    /\ IsAxis(cur) /\ cur.pubs = 0
    /\ last_event.state = 32767
    /\ drained = 0 /\ tick_pubs = 1 /\ auto_pubs = 1
    /\ sent.axes[0] = MinusOne
    /\ sent.stamp > cur.at

=============================================================================
